---- MODULE Spec2Model ----
(***************************************************************************)
(* A model of docs/tutorials/nmt_with_attention.ipynb: the text            *)
(* preprocessing, the tokenizer and dataset loading, the teacher-forcing   *)
(* training loop with its checkpoints, and the greedy decoding loop of     *)
(* evaluate.  Text is a sequence of one-character strings.  The neural     *)
(* layers (encoder, decoder, attention) are tensors-in, tensors-out        *)
(* functions of weights the notebook does not fix: each call returns a     *)
(* nondeterministically chosen value of its result type.                   *)
(***************************************************************************)
EXTENDS Integers, Sequences, FiniteSets, TLC

\* ------------------------------------------------------------------ bounds

\* Number of fragments an input sentence is assembled from.
MaxPieces == 3

\* Number of lines of the data file.
MaxLines == 3

\* ------------------------------------------------------------- characters

\* An optional integer argument: None, or Some(n).
None == << >>

Some(n) == << n >>

LowerSeq == << "a", "b", "c", "d", "e", "f", "g", "h", "i", "j", "k", "l", "m",
               "n", "o", "p", "q", "r", "s", "t", "u", "v", "w", "x", "y", "z" >>

UpperSeq == << "A", "B", "C", "D", "E", "F", "G", "H", "I", "J", "K", "L", "M",
               "N", "O", "P", "Q", "R", "S", "T", "U", "V", "W", "X", "Y", "Z" >>

Range(s) == { s[i] : i \in DOMAIN s }

AsciiLetters == Range(LowerSeq) \cup Range(UpperSeq)

\* U+00BF, the inverted question mark.
InvQ == "¿"

\* U+00E9 and U+00C9: e with acute, one code point each.
EAcute == "é"

EAcuteUpper == "É"

\* U+0301, the combining acute accent (category Mn).
CombAcute == "U+0301"

\* What str.strip() removes at both ends.
Whitespace == { " ", "\t", "\n" }

\* re: [?.!,¿]
Punct == { "?", ".", "!", ",", InvQ }

\* re: [" "]  (a class of two characters: the double quote and the space)
QuoteOrSpace == { "\"", " " }

\* The characters the model's inputs are made of.
Chars == AsciiLetters \cup Punct \cup Whitespace
           \cup { "\"", "<", ">", "1", "-", EAcute, EAcuteUpper, CombAcute }

\* ---------------------------------------------------------- string helpers

RECURSIVE Flatten(_)
Flatten(ss) == IF ss = << >> THEN << >> ELSE Head(ss) \o Flatten(Tail(ss))

\* str.lower() on one character.
LowerChar(c) ==
  IF c = EAcuteUpper THEN EAcute
  ELSE IF \E i \in DOMAIN UpperSeq : UpperSeq[i] = c
       THEN LowerSeq[CHOOSE i \in DOMAIN UpperSeq : UpperSeq[i] = c]
       ELSE c

Lower(s) == [ i \in DOMAIN s |-> LowerChar(s[i]) ]

RECURSIVE LStrip(_)
LStrip(s) ==
  IF s # << >> /\ Head(s) \in Whitespace THEN LStrip(Tail(s)) ELSE s

RECURSIVE RStrip(_)
RStrip(s) ==
  IF s # << >> /\ s[Len(s)] \in Whitespace
  THEN RStrip(SubSeq(s, 1, Len(s) - 1))
  ELSE s

\* str.strip()
Strip(s) == RStrip(LStrip(s))

\* unicodedata.normalize('NFD', c) for one character.
NFD(c) == IF c = EAcute THEN << "e", CombAcute >>
          ELSE IF c = EAcuteUpper THEN << "E", CombAcute >>
          ELSE << c >>

\* unicodedata.category(c) == 'Mn'
IsMn(c) == c = CombAcute

unicode_to_ascii(s) ==
  SelectSeq(Flatten([ i \in DOMAIN s |-> NFD(s[i]) ]), LAMBDA c : ~IsMn(c))

\* The first substitution leaving the string as it is.
PadPunct_Unpadded(s) == s

\* re.sub(r"([?.!,¿])", r" \1 ", w)
PadPunct(s) ==
  Flatten([ i \in DOMAIN s |->
              IF s[i] \in Punct THEN << " ", s[i], " " >> ELSE << s[i] >> ])

\* re.sub(r'[cls]+', " ", w): every maximal run of characters of cls becomes
\* one space.
RECURSIVE CollapseRuns(_, _)
CollapseRuns(s, cls) ==
  IF s = << >> THEN << >>
  ELSE IF Head(s) \in cls
       THEN IF Len(s) > 1 /\ s[2] \in cls
            THEN CollapseRuns(Tail(s), cls)
            ELSE << " " >> \o CollapseRuns(Tail(s), cls)
       ELSE << Head(s) >> \o CollapseRuns(Tail(s), cls)

\* A character class that also keeps the digits.
KeptWithDigits == AsciiLetters \cup Punct \cup { "1" }

\* re: [a-zA-Z?.!,¿]
Kept == AsciiLetters \cup Punct

StartTok == << "<", "s", "t", "a", "r", "t", ">" >>

EndTok == << "<", "e", "n", "d", ">" >>

\* preprocess_sentence without its third substitution.
preprocess_sentence_NoClean(w) ==
  LET w1 == unicode_to_ascii(Strip(Lower(w)))
      w2 == PadPunct(w1)
      w3 == CollapseRuns(w2, QuoteOrSpace)
      w5 == Strip(w3)
  IN  StartTok \o << " " >> \o w5 \o << " " >> \o EndTok

preprocess_sentence(w) ==
  LET w1 == unicode_to_ascii(Strip(Lower(w)))
      w2 == PadPunct(w1)
      w3 == CollapseRuns(w2, QuoteOrSpace)
      w4 == CollapseRuns(w3, Chars \ Kept)
      w5 == Strip(w4)
  IN  StartTok \o << " " >> \o w5 \o << " " >> \o EndTok

\* --------------------------------------------------------------- tokenizer

\* The position of the first sep in s, 0 when there is none.
FirstIndex(s, sep) ==
  IF \E i \in DOMAIN s : s[i] = sep
  THEN CHOOSE i \in DOMAIN s : s[i] = sep /\ \A j \in 1..(i - 1) : s[j] # sep
  ELSE 0

\* str.split(sep): the pieces between separators, empty pieces included.
RECURSIVE SplitOn(_, _)
SplitOn(s, sep) ==
  LET i == FirstIndex(s, sep)
  IN  IF i = 0 THEN << s >>
      ELSE << SubSeq(s, 1, i - 1) >> \o SplitOn(SubSeq(s, i + 1, Len(s)), sep)

\* keras text_to_word_sequence(text, filters='', lower=True, split=' '):
\* lower-case, split on the space, drop the empty pieces.
text_to_word_sequence(text) ==
  SelectSeq(SplitOn(Lower(text), " "), LAMBDA w : w # << >>)

\* The elements of seq in the order of their first appearance.
RECURSIVE Dedup(_)
Dedup(seq) ==
  IF seq = << >> THEN << >>
  ELSE LET init == Dedup(SubSeq(seq, 1, Len(seq) - 1))
           x    == seq[Len(seq)]
       IN  IF x \in Range(init) THEN init ELSE Append(init, x)

CountIn(seq, x) == Cardinality({ i \in DOMAIN seq : seq[i] = x })

\* list.sort(key=count, reverse=True): by descending count, equal counts in
\* their original order.
RECURSIVE SortByCount(_, _)
SortByCount(voc, all) ==
  IF voc = << >> THEN << >>
  ELSE LET best == CHOOSE i \in DOMAIN voc :
                     /\ \A j \in DOMAIN voc :
                          CountIn(all, voc[j]) <= CountIn(all, voc[i])
                     /\ \A j \in 1..(i - 1) :
                          CountIn(all, voc[j]) < CountIn(all, voc[i])
       IN  << voc[best] >>
             \o SortByCount(SubSeq(voc, 1, best - 1)
                              \o SubSeq(voc, best + 1, Len(voc)), all)

\* Tokenizer.fit_on_texts: the vocabulary sorted by frequency; word_index maps
\* the word at position i to i, index_word maps i back (ids start at 1).
fit_on_texts(texts) ==
  LET all == Flatten([ i \in DOMAIN texts |-> text_to_word_sequence(texts[i]) ])
  IN  SortByCount(Dedup(all), all)

HasWord(tok, w) == w \in Range(tok)

word_index(tok, w) == CHOOSE i \in DOMAIN tok : tok[i] = w

index_word(tok, i) == tok[i]

\* Tokenizer.texts_to_sequences (no num_words, no oov_token): the ids of the
\* words the tokenizer knows, the others skipped.
texts_to_sequences(tok, texts) ==
  [ i \in DOMAIN texts |->
      LET ws    == text_to_word_sequence(texts[i])
          known == SelectSeq(ws, LAMBDA w : HasWord(tok, w))
      IN  [ k \in DOMAIN known |-> word_index(tok, known[k]) ] ]

MaxOf(S) == CHOOSE m \in S : \A x \in S : x <= m

Zeros(n) == [ i \in 1..n |-> 0 ]

\* pad_sequences with the zeros in front.
pad_sequences_Pre(seqs, maxlen) ==
  LET n == IF maxlen = None
           THEN MaxOf({ Len(seqs[i]) : i \in DOMAIN seqs })
           ELSE maxlen[1]
  IN  [ i \in DOMAIN seqs |->
          LET q == seqs[i]
              t == IF Len(q) > n THEN SubSeq(q, Len(q) - n + 1, Len(q)) ELSE q
          IN  Zeros(n - Len(t)) \o t ]

\* keras pad_sequences(seqs, maxlen=maxlen, padding='post'), truncating='pre'
\* by default: a longer sequence keeps its last maxlen ids.
pad_sequences(seqs, maxlen) ==
  LET n == IF maxlen = None
           THEN MaxOf({ Len(seqs[i]) : i \in DOMAIN seqs })
           ELSE maxlen[1]
  IN  [ i \in DOMAIN seqs |->
          LET q == seqs[i]
              t == IF Len(q) > n THEN SubSeq(q, Len(q) - n + 1, Len(q)) ELSE q
          IN  t \o Zeros(n - Len(t)) ]

tokenize(lang) ==
  LET lang_tokenizer == fit_on_texts(lang)
      tensor == pad_sequences(texts_to_sequences(lang_tokenizer, lang), None)
  IN  [ tensor |-> tensor, tokenizer |-> lang_tokenizer ]

\* ----------------------------------------------------------------- dataset

\* lines[:num_examples]
SliceTo(lines, n) ==
  IF n = None THEN lines
  ELSE IF n[1] >= Len(lines) THEN lines
  ELSE SubSeq(lines, 1, n[1])

\* zip(*rows): one tuple per column, as many columns as the shortest row has.
ZipStar(rows) ==
  IF rows = << >> THEN << >>
  ELSE LET width == CHOOSE m \in { Len(rows[i]) : i \in DOMAIN rows } :
                      \A i \in DOMAIN rows : m <= Len(rows[i])
       IN  [ c \in 1..width |-> [ i \in DOMAIN rows |-> rows[i][c] ] ]

create_dataset(text, num_examples) ==
  LET lines == SplitOn(Strip(text), "\n")
      word_pairs ==
        [ i \in DOMAIN SliceTo(lines, num_examples) |->
            LET fields == SplitOn(lines[i], "\t")
            IN  [ k \in DOMAIN fields |-> preprocess_sentence(fields[k]) ] ]
  IN  ZipStar(word_pairs)

\* What load_dataset leaves when its tuple unpacking raises ValueError.
NoDataset ==
  [ raised |-> TRUE, input_tensor |-> << >>, target_tensor |-> << >>,
    inp_lang |-> << >>, targ_lang |-> << >>,
    inp_sentences |-> << >>, targ_sentences |-> << >> ]

\* load_dataset with the two languages unpacked the other way round.
load_dataset_Swapped(text, num_examples) ==
  LET cols == create_dataset(text, num_examples)
  IN  IF Len(cols) # 2 THEN NoDataset
      ELSE LET inp_lang  == cols[1]
               targ_lang == cols[2]
               inp  == tokenize(inp_lang)
               targ == tokenize(targ_lang)
           IN  [ raised |-> FALSE,
                 input_tensor |-> inp.tensor, target_tensor |-> targ.tensor,
                 inp_lang |-> inp.tokenizer, targ_lang |-> targ.tokenizer,
                 inp_sentences |-> inp_lang, targ_sentences |-> targ_lang ]

\* load_dataset: the tuple unpacking raises unless create_dataset yields
\* exactly two columns.  inp_sentences and targ_sentences are the locals
\* inp_lang and targ_lang before the tokenizers take their names.
load_dataset(text, num_examples) ==
  LET cols == create_dataset(text, num_examples)
  IN  IF Len(cols) # 2 THEN NoDataset
      ELSE LET targ_lang == cols[1]
               inp_lang  == cols[2]
               inp  == tokenize(inp_lang)
               targ == tokenize(targ_lang)
           IN  [ raised |-> FALSE,
                 input_tensor |-> inp.tensor, target_tensor |-> targ.tensor,
                 inp_lang |-> inp.tokenizer, targ_lang |-> targ.tokenizer,
                 inp_sentences |-> inp_lang, targ_sentences |-> targ_lang ]

\* ------------------------------------------------------------------ inputs

\* The pieces input sentences are assembled from.
Fragments ==
  { << "a" >>, << "B" >>, << " " >>, << "." >>, << InvQ >>, << "1" >>,
    << EAcute >>, << "\"" >>, << "\t" >>, << "-" >>, StartTok, EndTok }

RECURSIVE SentencesUpTo(_)
SentencesUpTo(n) ==
  IF n = 0 THEN { << >> }
  ELSE LET prev == SentencesUpTo(n - 1)
       IN  prev \cup { s \o f : s \in prev, f \in Fragments }

\* The lines data files are assembled from: the fields of one line, English
\* first.  The last one carries a third field.
PoolLines ==
  << << << "G", "o", "." >>, << "V", "e", "." >> >>,
     << << "N", "o" >>, << "N", "o" >> >>,
     << << "G", "o", " ", "g", "o" >>, << InvQ, "V", "e", "?" >> >>,
     << << "G", "o", "!" >>, << "V", "e", "!" >> >>,
     << << "H", "i" >>, << "E", "h" >>, << "c", "c" >> >> >>

LinePool == Range(PoolLines)

RECURSIVE Join(_, _)
Join(pieces, sep) ==
  IF pieces = << >> THEN << >>
  ELSE IF Len(pieces) = 1 THEN pieces[1]
  ELSE pieces[1] \o << sep >> \o Join(Tail(pieces), sep)

RECURSIVE SeqsUpTo(_, _)
SeqsUpTo(S, n) ==
  IF n = 0 THEN { << >> }
  ELSE LET prev == SeqsUpTo(S, n - 1)
       IN  prev \cup { Append(q, x) : q \in prev, x \in S }

\* The text of the file whose lines have the given fields.
FileText(lines, trailing_newline) ==
  Join([ i \in DOMAIN lines |-> Join(lines[i], "\t") ], "\n")
    \o (IF trailing_newline THEN << "\n" >> ELSE << >>)

\* ------------------------------------------------------------------- state

VARIABLES
  sentence,   \* preprocess_sentence: the argument w
  prep_pc,    \* "call" before preprocess_sentence has run, "done" after
  prep_out,   \* preprocess_sentence: the returned string
  file_lines,    \* the fields of each line the data file was written from
  file_text,     \* the content of the file at path_to_file
  num_examples,  \* load_dataset: the argument num_examples
  data_pc,       \* "call" before load_dataset has run, "done" after
  dataset,       \* what load_dataset returned (raised: it ended in ValueError)
  corpus,          \* the globals input_tensor, target_tensor, inp_lang, targ_lang
  params,          \* the weights and optimizer slots: the number of updates made
  ts_pc,           \* train_step: "call", "loop" (the decode loop), "done"
  ts_inp,          \* train_step: the argument inp
  ts_targ,         \* train_step: the argument targ
  ts_enc_hidden,   \* train_step: the parameter enc_hidden
  ts_enc_output,   \* train_step: enc_output
  ts_dec_hidden,   \* train_step: dec_hidden
  ts_dec_input,    \* train_step: dec_input
  ts_t,            \* train_step: the loop variable t
  ts_loss,         \* train_step: loss
  ts_batch_loss,   \* train_step: the returned batch_loss
  ts_predictions,  \* train_step: the predictions of the last decoder call
  ts_enc_calls,    \* the arguments of the encoder calls of this train_step
  ts_dec_calls,    \* the arguments and returned state of its decoder calls
  loop_pc,         \* training loop: "epoch_start", "batches", "finished", "restored"
  epoch,           \* training loop: the loop variable epoch (epochs completed)
  batch,           \* training loop: the number of the next batch of the epoch
  enc_hidden,      \* training loop: enc_hidden
  total_loss,      \* training loop: total_loss
  inp,             \* training loop: the input rows of the current batch
  targ,            \* training loop: the target rows of the current batch
  train_rows,      \* the rows train_test_split put in the training set
  rest,            \* the training rows the shuffled dataset has yet to yield
  checkpoints,     \* the checkpoints saved under checkpoint_prefix, oldest first
  ev_pc,           \* evaluate: "call", "prepared", "loop", "returned", "KeyError"
  ev_sentence,     \* evaluate: sentence (the argument, then preprocessed)
  ev_inputs,       \* evaluate: inputs
  ev_result,       \* evaluate: result
  attention_plot,  \* evaluate: attention_plot
  ev_enc_out,      \* evaluate: enc_out
  ev_dec_hidden,   \* evaluate: dec_hidden
  ev_dec_input,    \* evaluate: dec_input
  ev_t,            \* evaluate: the loop variable t
  ev_enc_calls,    \* the arguments and results of the encoder calls of evaluate
  ev_dec_calls,    \* the arguments and results of its decoder calls
  att_pc,          \* BahdanauAttention.call: "call" before it has run, "done" after
  att_query,       \* BahdanauAttention.call: the argument query
  att_values,      \* BahdanauAttention.call: the argument values
  att_score,       \* BahdanauAttention.call: score
  att_weights,     \* BahdanauAttention.call: attention_weights
  att_context,     \* BahdanauAttention.call: context_vector
  dec_pc,          \* the decoder calls compared: "first", "second", "done"
  dec_scores,      \* the score the attention layer's weights give each query met
  dec_calls        \* the arguments and results of the Decoder.call calls made

prepVars == << sentence, prep_pc, prep_out >>

dataVars == << file_lines, file_text, num_examples, data_pc, dataset >>

\* ------------------------------------------------- the notebook's globals

NUM_EXAMPLES == 30000

\* The data file of the training and translation runs: the pool's lines.
\* input_tensor, target_tensor, inp_lang, targ_lang =
\*   load_dataset(path_to_file, num_examples)
LoadedCorpus == load_dataset(FileText(PoolLines, TRUE), Some(NUM_EXAMPLES))

input_tensor == corpus.input_tensor

target_tensor == corpus.target_tensor

inp_lang == corpus.inp_lang

targ_lang == corpus.targ_lang

max_length_targ == Len(target_tensor[1])

max_length_inp == Len(input_tensor[1])

\* Rows of a batch (the notebook sets BATCH_SIZE = 64).
BATCH_SIZE == 2

vocab_tar_size == Len(targ_lang) + 1

\* tensor[:, t], t counted from 0 as in the notebook.
Col(tensor, t) == [ i \in DOMAIN tensor |-> tensor[i][t + 1] ]

\* A batch of the shuffled dataset: BATCH_SIZE distinct rows.  Rows are
\* listed in increasing order (train_step treats every row alike).
Batches ==
  { b \in [ 1..BATCH_SIZE -> DOMAIN target_tensor ] :
      \A i, j \in 1..BATCH_SIZE : i < j => b[i] < b[j] }

Rows(tensor, b) == [ i \in DOMAIN b |-> tensor[b[i]] ]

\* ----------------------------------------------------- the neural layers

\* tf.zeros((batch, units)): the all-zero hidden state.
ZeroState == "zeros"

\* The states a GRU returns.
GRUStates == { "h1", "h2" }

\* The sequence outputs the encoder returns.
EncOutputs == { "eo1", "eo2" }

\* The ids the decoder's logits put first (argmax): the padding id, the end
\* token and a word.
PredIds ==
  { 0, word_index(targ_lang, EndTok), word_index(targ_lang, << "g", "o" >>) }

\* SparseCategoricalCrossentropy(from_logits=True, reduction='none') of one
\* position, with logits that put all their weight on the id pred: nothing
\* when pred is the real id, a positive loss otherwise (a multiple of the
\* divisors the notebook applies, so that the divisions are exact).
loss_object(real, pred) ==
  [ i \in DOMAIN real |->
      IF pred[i] = real[i] THEN 0 ELSE BATCH_SIZE * max_length_targ ]

RECURSIVE Sum(_)
Sum(q) == IF q = << >> THEN 0 ELSE Head(q) + Sum(Tail(q))

\* loss_function without the mask.
loss_function_Unmasked(real, pred) ==
  LET loss_ == loss_object(real, pred)
  IN  Sum(loss_) \div Len(loss_)

\* mask = real != 0; loss_ = loss_object(real, pred) * mask;
\* tf.reduce_mean(loss_): the sum over all positions by their number.
loss_function(real, pred) ==
  LET mask  == [ i \in DOMAIN real |-> IF real[i] # 0 THEN 1 ELSE 0 ]
      loss_ == loss_object(real, pred)
      masked == [ i \in DOMAIN real |-> loss_[i] * mask[i] ]
  IN  Sum(masked) \div Len(masked)

\* train_step feeding the decoder its own prediction.
NextTrainInput_Predicted(real, t, predictions) == predictions

\* Teacher forcing: dec_input = tf.expand_dims(targ[:, t], 1)
NextTrainInput(real, t, predictions) == Col(real, t)

\* train_step keeping the hidden state it had before the decoder call.
NextDecHidden_Kept(dec_hidden, state) == dec_hidden

\* predictions, dec_hidden, _ = decoder(dec_input, dec_hidden, enc_output):
\* dec_hidden is rebound to the state the decoder returned.
NextDecHidden(dec_hidden, state) == state

stepVars ==
  << ts_pc, ts_inp, ts_targ, ts_enc_hidden, ts_enc_output, ts_dec_hidden,
     ts_dec_input, ts_t, ts_loss, ts_batch_loss, ts_predictions,
     ts_enc_calls, ts_dec_calls >>

loopVars ==
  << loop_pc, epoch, batch, enc_hidden, total_loss, inp, targ, train_rows,
     rest, checkpoints >>

modelVars == << corpus, params >>

evalVars ==
  << ev_pc, ev_sentence, ev_inputs, ev_result, attention_plot, ev_enc_out,
     ev_dec_hidden, ev_dec_input, ev_t, ev_enc_calls, ev_dec_calls >>

attVars ==
  << att_pc, att_query, att_values, att_score, att_weights, att_context >>

decVars == << dec_pc, dec_scores, dec_calls >>

vars ==
  << prepVars, dataVars, modelVars, stepVars, loopVars, evalVars, attVars,
     decVars >>

EPOCHS == 10

\* train_test_split(..., test_size=0.2): the test set gets ceil(0.2 * n) rows.
TrainSize(n) == n - ((n + 4) \div 5)

\* steps_per_epoch = len(input_tensor_train)//BATCH_SIZE
steps_per_epoch == Cardinality(train_rows) \div BATCH_SIZE

\* The values train_step returns as batch_loss.
BatchLosses == 0..(BATCH_SIZE * (max_length_targ - 1))

\* The loop's enc_hidden following the rebinding inside train_step.
CallerEncHidden_Carried(hidden, state) == state

\* batch_loss = train_step(inp, targ, enc_hidden): train_step rebinds its own
\* parameter (line 663); the loop's enc_hidden keeps the tensor it named.
CallerEncHidden(hidden, state) == hidden

\* A checkpoint after every epoch.
SaveDue_EveryEpoch(e) == TRUE

\* A checkpoint after every epoch whose 1-based number is odd.
SaveDue_OddEpochs(e) == e % 2 = 0

\* if (epoch + 1) % 2 == 0
SaveDue(e) == (e + 1) % 2 = 0

AttIdle ==
  /\ att_pc = "idle"
  /\ att_query = "unset"
  /\ att_values = << >>
  /\ att_score = << >>
  /\ att_weights = << >>
  /\ att_context = << >>

DecIdle ==
  /\ dec_pc = "idle"
  /\ dec_scores = {}
  /\ dec_calls = << >>

EvalLocalsInit ==
  /\ ev_inputs = << >>
  /\ ev_result = << >>
  /\ attention_plot = << >>
  /\ ev_enc_out = "unset"
  /\ ev_dec_hidden = "unset"
  /\ ev_dec_input = << >>
  /\ ev_t = 0
  /\ ev_enc_calls = << >>
  /\ ev_dec_calls = << >>

EvalIdle ==
  /\ ev_pc = "idle"
  /\ ev_sentence = << >>
  /\ EvalLocalsInit

LoopIdle ==
  /\ loop_pc = "idle"
  /\ epoch = 0
  /\ batch = 0
  /\ enc_hidden = "unset"
  /\ total_loss = 0
  /\ inp = << >>
  /\ targ = << >>
  /\ train_rows = {}
  /\ rest = {}
  /\ checkpoints = << >>

PrepIdle ==
  /\ sentence = << >>
  /\ prep_pc = "idle"
  /\ prep_out = << >>

DataIdle ==
  /\ file_lines = << >>
  /\ file_text = << >>
  /\ num_examples = None
  /\ data_pc = "idle"
  /\ dataset = NoDataset

StepLocalsInit ==
  /\ ts_enc_output = "unset"
  /\ ts_dec_hidden = "unset"
  /\ ts_dec_input = << >>
  /\ ts_t = 0
  /\ ts_loss = 0
  /\ ts_batch_loss = 0
  /\ ts_predictions = << >>
  /\ ts_enc_calls = << >>
  /\ ts_dec_calls = << >>

StepIdle ==
  /\ ts_pc = "idle"
  /\ ts_inp = << >>
  /\ ts_targ = << >>
  /\ ts_enc_hidden = ZeroState
  /\ StepLocalsInit

\* ------------------------------------------- preprocess_sentence, by itself

PrepInit ==
  /\ AttIdle
  /\ DecIdle
  /\ sentence \in SentencesUpTo(MaxPieces)
  /\ prep_pc = "call"
  /\ prep_out = << >>
  /\ DataIdle
  /\ corpus = NoDataset
  /\ params = 0
  /\ StepIdle
  /\ LoopIdle
  /\ EvalIdle

Preprocess ==
  /\ prep_pc = "call"
  /\ prep_out' = preprocess_sentence(sentence)
  /\ prep_pc' = "done"
  /\ UNCHANGED << sentence, dataVars, modelVars, stepVars, loopVars, evalVars,
                  attVars, decVars >>

PrepNext == Preprocess

SpecPrep == PrepInit /\ [][PrepNext]_vars

\* ------------------------------------------------------ load_dataset, by itself

DataInit ==
  /\ AttIdle
  /\ DecIdle
  /\ PrepIdle
  /\ file_lines \in SeqsUpTo(LinePool, MaxLines)
  /\ \E nl \in BOOLEAN : file_text = FileText(file_lines, nl)
  /\ num_examples \in { None } \cup { Some(n) : n \in 0..MaxLines }
  /\ data_pc = "call"
  /\ dataset = NoDataset
  /\ corpus = NoDataset
  /\ params = 0
  /\ StepIdle
  /\ LoopIdle
  /\ EvalIdle

LoadDataset ==
  /\ data_pc = "call"
  /\ dataset' = load_dataset(file_text, num_examples)
  /\ data_pc' = "done"
  /\ UNCHANGED << file_lines, file_text, num_examples, prepVars, modelVars,
                  stepVars, loopVars, evalVars,
                  attVars, decVars >>

DataNext == LoadDataset

SpecData == DataInit /\ [][DataNext]_vars

\* -------------------------------------------------------- train_step, by itself

\* One call train_step(inp, targ, enc_hidden) on a batch of the dataset, with
\* the all-zero hidden state the training loop passes.
StepInit ==
  /\ AttIdle
  /\ DecIdle
  /\ PrepIdle
  /\ DataIdle
  /\ corpus = LoadedCorpus
  /\ params = 0
  /\ ts_pc = "call"
  /\ \E b \in Batches :
       /\ ts_inp = Rows(input_tensor, b)
       /\ ts_targ = Rows(target_tensor, b)
  /\ ts_enc_hidden = ZeroState
  /\ StepLocalsInit
  /\ LoopIdle
  /\ EvalIdle

\* enc_output, enc_hidden = encoder(inp, enc_hidden); dec_hidden = enc_hidden;
\* dec_input = the '<start>' id in every row.
TS_Encode ==
  /\ ts_pc = "call"
  /\ \E output \in EncOutputs, state \in GRUStates :
       /\ ts_enc_calls' =
            Append(ts_enc_calls, [ x |-> ts_inp, hidden |-> ts_enc_hidden,
                                   output |-> output, state |-> state ])
       /\ ts_enc_output' = output
       /\ ts_enc_hidden' = state
       /\ ts_dec_hidden' = state
  /\ ts_loss' = 0
  /\ ts_dec_input' = [ i \in 1..BATCH_SIZE |-> word_index(targ_lang, StartTok) ]
  /\ ts_t' = 1
  /\ ts_pc' = "loop"
  /\ UNCHANGED << ts_inp, ts_targ, ts_batch_loss, ts_predictions,
                  ts_dec_calls, modelVars, prepVars, dataVars, loopVars,
                  evalVars,
                  attVars, decVars >>

\* One pass of: for t in range(1, targ.shape[1])
TS_Decode ==
  /\ ts_pc = "loop"
  /\ ts_t < Len(ts_targ[1])
  /\ \E predictions \in [ 1..BATCH_SIZE -> PredIds ], state \in GRUStates :
       /\ ts_dec_calls' =
            Append(ts_dec_calls,
                   [ t |-> ts_t, x |-> ts_dec_input, hidden |-> ts_dec_hidden,
                     enc_output |-> ts_enc_output, state |-> state ])
       /\ ts_predictions' = predictions
       /\ ts_dec_hidden' = NextDecHidden(ts_dec_hidden, state)
       /\ ts_loss' = ts_loss + loss_function(Col(ts_targ, ts_t), predictions)
       /\ ts_dec_input' = NextTrainInput(ts_targ, ts_t, predictions)
  /\ ts_t' = ts_t + 1
  /\ UNCHANGED << ts_pc, ts_inp, ts_targ, ts_enc_hidden, ts_enc_output,
                  ts_batch_loss, ts_enc_calls, modelVars, prepVars, dataVars,
                  loopVars, evalVars,
                  attVars, decVars >>

\* After the loop: batch_loss = loss / targ.shape[1], the gradients are
\* applied, batch_loss is returned.
TS_Apply ==
  /\ ts_pc = "loop"
  /\ ts_t >= Len(ts_targ[1])
  /\ ts_batch_loss' = ts_loss \div Len(ts_targ[1])
  /\ params' = params + 1
  /\ ts_pc' = "done"
  /\ UNCHANGED << ts_inp, ts_targ, ts_enc_hidden, ts_enc_output, ts_dec_hidden,
                  ts_dec_input, ts_t, ts_loss, ts_predictions, ts_enc_calls,
                  ts_dec_calls, corpus, prepVars, dataVars, loopVars,
                  evalVars,
                  attVars, decVars >>

StepNext == TS_Encode \/ TS_Decode \/ TS_Apply

SpecStep == StepInit /\ [][StepNext]_vars

\* ----------------------------------------------------- loss_function, by itself

\* One call loss_function(targ[:, t], predictions) as train_step makes it at
\* line 674: targ a batch of the dataset, t a pass of the loop, predictions
\* what the decoder returned; ts_loss receives the returned value.
LossInit ==
  /\ AttIdle
  /\ DecIdle
  /\ PrepIdle
  /\ DataIdle
  /\ LoopIdle
  /\ EvalIdle
  /\ corpus = LoadedCorpus
  /\ params = 0
  /\ ts_pc = "call"
  /\ \E b \in Batches :
       /\ ts_inp = Rows(input_tensor, b)
       /\ ts_targ = Rows(target_tensor, b)
  /\ ts_enc_hidden = ZeroState
  /\ ts_enc_output = "unset"
  /\ ts_dec_hidden = "unset"
  /\ ts_dec_input = << >>
  /\ ts_t \in 1..(max_length_targ - 1)
  /\ ts_loss = 0
  /\ ts_batch_loss = 0
  /\ ts_predictions \in [ 1..BATCH_SIZE -> PredIds ]
  /\ ts_enc_calls = << >>
  /\ ts_dec_calls = << >>

LossCall ==
  /\ ts_pc = "call"
  /\ ts_loss' = loss_function(Col(ts_targ, ts_t), ts_predictions)
  /\ ts_pc' = "done"
  /\ UNCHANGED << ts_inp, ts_targ, ts_enc_hidden, ts_enc_output, ts_dec_hidden,
                  ts_dec_input, ts_t, ts_batch_loss, ts_predictions,
                  ts_enc_calls, ts_dec_calls, modelVars, prepVars, dataVars,
                  loopVars, evalVars,
                  attVars, decVars >>

LossNext == LossCall

SpecLoss == LossInit /\ [][LossNext]_vars

\* ------------------------------------------------ BahdanauAttention.call

\* Encoder positions of the attention calls modelled (max_length).
MaxLength == 3

\* Exact fractions num/den in lowest terms, for non-negative num and
\* positive den: the values of the float tensors, without rounding.
RECURSIVE GCD(_, _)
GCD(a, b) == IF b = 0 THEN a ELSE GCD(b, a % b)

Rat(n, d) == LET g == GCD(n, d) IN [ num |-> n \div g, den |-> d \div g ]

RatAdd(p, q) == Rat(p.num * q.den + q.num * p.den, p.den * q.den)

RatScale(p, v) == Rat(p.num * v, p.den)

RECURSIVE RatSum(_)
RatSum(q) == IF q = << >> THEN Rat(0, 1) ELSE RatAdd(Head(q), RatSum(Tail(q)))

\* The exponential inside softmax, by a function with its properties here:
\* positive and increasing.
Exp(x) == 2 ^ x

\* softmax over the last axis (the default axis=-1), of size 1 here.
softmax_LastAxis(score) ==
  [ b \in DOMAIN score |->
      [ t \in DOMAIN score[b] |->
          [ k \in DOMAIN score[b][t] |->
              Rat(Exp(score[b][t][k]),
                  Sum([ j \in DOMAIN score[b][t] |-> Exp(score[b][t][j]) ])) ] ] ]

\* tf.nn.softmax(score, axis=1), score of shape (batch_size, max_length, 1):
\* each entry's exponential over the sum of the exponentials along axis 1.
softmax(score) ==
  [ b \in DOMAIN score |->
      [ t \in DOMAIN score[b] |->
          [ k \in DOMAIN score[b][t] |->
              Rat(Exp(score[b][t][k]),
                  Sum([ u \in DOMAIN score[b] |-> Exp(score[b][u][k]) ])) ] ] ]

\* attention_weights * values: (batch_size, max_length, 1) against
\* (batch_size, max_length, hidden_size), the last axis broadcast.
Multiply(weights, values) ==
  [ b \in DOMAIN values |->
      [ t \in DOMAIN values[b] |->
          [ h \in DOMAIN values[b][t] |->
              RatScale(weights[b][t][1], values[b][t][h]) ] ] ]

\* tf.reduce_sum(tensor, axis=1)
reduce_sum(tensor) ==
  [ b \in DOMAIN tensor |->
      [ h \in DOMAIN tensor[b][1] |->
          RatSum([ t \in DOMAIN tensor[b] |-> tensor[b][t][h] ]) ] ]

\* The encoder outputs of one batch element, (max_length, hidden_size):
\* two that change along the time axis and one that is the same at every
\* position.
EncRows ==
  << [ t \in 1..MaxLength |-> << t, 1 >> ],
     [ t \in 1..MaxLength |-> << 0, MaxLength + 1 - t >> ],
     [ t \in 1..MaxLength |-> << 1, 1 >> ] >>

\* The encoder outputs of a batch, (batch_size, max_length, hidden_size):
\* the batch elements take the rows above in turn, from any of them on.
EncBatches(batch_size) ==
  { [ b \in 1..batch_size |-> EncRows[((b + k) % Len(EncRows)) + 1] ] :
      k \in 1..Len(EncRows) }

\* The values self.V(tf.nn.tanh(self.W1(...) + self.W2(...))) takes.
ScoreValues == { 0, 1 }

\* score, of shape (batch_size, max_length, 1).
Scores(batch_size) ==
  [ 1..batch_size -> [ 1..MaxLength -> { << v >> : v \in ScoreValues } ] ]

\* One call of the layer on a batch, as at lines 509-510 and in Decoder.call.
AttInit ==
  /\ PrepIdle
  /\ DataIdle
  /\ StepIdle
  /\ LoopIdle
  /\ EvalIdle
  /\ DecIdle
  /\ corpus = NoDataset
  /\ params = 0
  /\ att_pc = "call"
  /\ att_query \in GRUStates \cup { ZeroState }
  /\ att_values \in EncBatches(BATCH_SIZE)
  /\ att_score = << >>
  /\ att_weights = << >>
  /\ att_context = << >>

\* The body of call: the score the dense layers give, the softmax, the
\* weighted sum.
BahdanauAttention_call ==
  /\ att_pc = "call"
  /\ \E score \in Scores(BATCH_SIZE) :
       LET attention_weights == softmax(score)
           context_vector    == Multiply(attention_weights, att_values)
       IN  /\ att_score' = score
           /\ att_weights' = attention_weights
           /\ att_context' = reduce_sum(context_vector)
  /\ att_pc' = "done"
  /\ UNCHANGED << att_query, att_values, prepVars, dataVars, modelVars,
                  stepVars, loopVars, evalVars, decVars >>

AttNext == BahdanauAttention_call

SpecAtt == AttInit /\ [][AttNext]_vars

\* ------------------------------------------------------------ Decoder.call

\* The token ids a decoder call is given as x.
DecTokens == { 1, 2 }

\* The hidden states a decoder call is given.
DecHiddens == GRUStates \cup { ZeroState }

\* The GRU of the decoder started from the hidden argument.
GRUInitialState_Hidden(hidden) == hidden

\* output, state = self.gru(x): no initial_state is passed, and the layer is
\* not stateful, so the GRU starts from its default, the all-zero state.
GRUInitialState(hidden) == ZeroState

\* The layers with learned weights are functions of their inputs, kept as
\* the expression that was computed.
embedding(x) == [ layer |-> "embedding", input |-> x ]

gru(x, initial_state) ==
  [ layer |-> "gru", input |-> x, initial_state |-> initial_state ]

fc(output) == [ layer |-> "fc", input |-> output ]

\* The score the attention layer's dense layers give is a function of query
\* and values: a query met before gets the score it got then.
ScoreAllowed(query, score) ==
  \A p \in dec_scores : p.query = query => p.score = score

\* Two calls decoder(x, hidden, enc_output) on the same encoder output of a
\* batch of one sentence, as evaluate makes them.
DecInit ==
  /\ PrepIdle
  /\ DataIdle
  /\ StepIdle
  /\ LoopIdle
  /\ EvalIdle
  /\ corpus = NoDataset
  /\ params = 0
  /\ att_pc = "idle"
  /\ att_query = "unset"
  /\ att_values \in EncBatches(1)
  /\ att_score = << >>
  /\ att_weights = << >>
  /\ att_context = << >>
  /\ dec_pc = "first"
  /\ dec_scores = {}
  /\ dec_calls = << >>

\* The body of Decoder.call: attention on (hidden, enc_output), embedding of
\* x, concatenation with the context vector, the GRU, the dense layer.
Decoder_call ==
  /\ dec_pc \in { "first", "second" }
  /\ \E x \in DecTokens, hidden \in DecHiddens, score \in Scores(1) :
       /\ ScoreAllowed(hidden, score)
       /\ LET enc_output        == att_values
              attention_weights == softmax(score)
              context_vector    ==
                reduce_sum(Multiply(attention_weights, enc_output))
              x1     == embedding(x)
              x2     == << context_vector, x1 >>
              state  == gru(x2, GRUInitialState(hidden))
              output == state
              x3     == fc(output)
          IN  /\ att_query' = hidden
              /\ att_score' = score
              /\ att_weights' = attention_weights
              /\ att_context' = context_vector
              /\ dec_scores' = dec_scores \cup { [ query |-> hidden, score |-> score ] }
              /\ dec_calls' =
                   Append(dec_calls,
                          [ x |-> x, hidden |-> hidden, enc_output |-> enc_output,
                            context_vector |-> context_vector,
                            attention_weights |-> attention_weights,
                            logits |-> x3, state |-> state ])
  /\ att_pc' = "done"
  /\ dec_pc' = IF dec_pc = "first" THEN "second" ELSE "done"
  /\ UNCHANGED << att_values, prepVars, dataVars, modelVars, stepVars,
                  loopVars, evalVars >>

DecNext == Decoder_call

SpecDec == DecInit /\ [][DecNext]_vars

\* ------------------------------------------------------------- training loop

\* The notebook's run: the split, the training loop, then the restore of the
\* latest checkpoint.  A call of train_step is one step here: it updates the
\* weights and returns batch_loss.
TrainInit ==
  /\ AttIdle
  /\ DecIdle
  /\ PrepIdle
  /\ DataIdle
  /\ StepIdle
  /\ EvalIdle
  /\ corpus = LoadedCorpus
  /\ params = 0
  /\ loop_pc = "epoch_start"
  /\ epoch = 0
  /\ batch = 0
  /\ enc_hidden = "unset"
  /\ total_loss = 0
  /\ inp = << >>
  /\ targ = << >>
  /\ train_rows \in { R \in SUBSET DOMAIN target_tensor :
                         Cardinality(R) = TrainSize(Len(target_tensor)) }
  /\ rest = {}
  /\ checkpoints = << >>

\* for epoch in range(EPOCHS): enc_hidden = encoder.initialize_hidden_state();
\* total_loss = 0; a new pass over the shuffled dataset begins.
EpochStart ==
  /\ loop_pc = "epoch_start"
  /\ epoch < EPOCHS
  /\ enc_hidden' = ZeroState
  /\ total_loss' = 0
  /\ batch' = 0
  /\ rest' = train_rows
  /\ loop_pc' = "batches"
  /\ UNCHANGED << epoch, inp, targ, train_rows, checkpoints, modelVars,
                  prepVars, dataVars, stepVars, evalVars,
                  attVars, decVars >>

\* One pass of the inner loop: the next batch, train_step(inp, targ,
\* enc_hidden) on it, total_loss += batch_loss.  Of the call it is kept what
\* its encoder call received and returned, the rebinding of its parameter
\* enc_hidden, the update of the weights and the batch_loss the loop adds
\* to total_loss.
TrainStep ==
  /\ loop_pc = "batches"
  /\ batch < steps_per_epoch
  /\ \E b \in Batches, batch_loss \in BatchLosses,
        output \in EncOutputs, state \in GRUStates :
       /\ Range(b) \subseteq rest
       /\ inp' = Rows(input_tensor, b)
       /\ targ' = Rows(target_tensor, b)
       /\ rest' = rest \ Range(b)
       /\ ts_inp' = inp'
       /\ ts_targ' = targ'
       /\ ts_enc_calls' = << [ x |-> inp', hidden |-> enc_hidden,
                               output |-> output, state |-> state ] >>
       /\ ts_enc_output' = output
       /\ ts_enc_hidden' = state
       /\ enc_hidden' = CallerEncHidden(enc_hidden, state)
       /\ total_loss' = total_loss + batch_loss
  /\ ts_pc' = "done"
  /\ params' = params + 1
  /\ batch' = batch + 1
  /\ UNCHANGED << loop_pc, epoch, train_rows, checkpoints, corpus,
                  ts_dec_hidden, ts_dec_input, ts_t, ts_loss, ts_batch_loss,
                  ts_predictions, ts_dec_calls, prepVars, dataVars, evalVars,
                  attVars, decVars >>

\* After the inner loop: checkpoint.save every second epoch, then the next
\* epoch or the end of the loop.
EpochEnd ==
  /\ loop_pc = "batches"
  /\ batch >= steps_per_epoch
  /\ checkpoints' =
       IF SaveDue(epoch)
       THEN Append(checkpoints,
                   [ params |-> params, epoch |-> epoch + 1, batches |-> batch ])
       ELSE checkpoints
  /\ epoch' = epoch + 1
  /\ loop_pc' = IF epoch + 1 < EPOCHS THEN "epoch_start" ELSE "finished"
  /\ UNCHANGED << batch, enc_hidden, total_loss, inp, targ, train_rows, rest,
                  modelVars, prepVars, dataVars, stepVars, evalVars,
                  attVars, decVars >>

\* checkpoint.restore(tf.train.latest_checkpoint(checkpoint_dir))
Restore ==
  /\ loop_pc = "finished"
  /\ params' = IF checkpoints = << >> THEN params
               ELSE checkpoints[Len(checkpoints)].params
  /\ loop_pc' = "restored"
  /\ UNCHANGED << epoch, batch, enc_hidden, total_loss, inp, targ, train_rows,
                  rest, checkpoints, corpus, prepVars, dataVars, stepVars,
                  evalVars,
                  attVars, decVars >>

TrainNext == EpochStart \/ TrainStep \/ EpochEnd \/ Restore

SpecTrain == TrainInit /\ [][TrainNext]_vars

\* ------------------------------------------------------------------ evaluate

\* The sentences evaluate is called with: two the input vocabulary covers
\* (the second has more tokens than max_length_inp), the empty one, and one
\* with a word the vocabulary lacks.
EvalSentences ==
  { << "V", "e", "." >>,
    << "V", "e", ".", " ", "V", "e", "." >>,
    << >>,
    << "H", "i" >> }

\* The ids the decoder's logits put first in evaluate.
EvalPredIds == PredIds \cup { word_index(targ_lang, << "." >>) }

\* The attention weights a decoder call returns for the one input row,
\* reshaped to (max_length_inp,): positive, in hundredths, summing to 100.
AttentionRows ==
  { [ i \in 1..max_length_inp |-> 100 \div max_length_inp ],
    [ i \in 1..max_length_inp |->
        IF i = 1 THEN 100 - 10 * (max_length_inp - 1) ELSE 10 ] }

\* evaluate never leaving the loop at '<end>'.
PredictsEnd_Never(predicted_id) == FALSE

\* if targ_lang.index_word[predicted_id] == '<end>'
PredictsEnd(predicted_id) == index_word(targ_lang, predicted_id) = EndTok

\* evaluate feeding the '<start>' id at every step.
NextEvalInput_Start(predicted_id) == << word_index(targ_lang, StartTok) >>

\* dec_input = tf.expand_dims([predicted_id], 0)
NextEvalInput(predicted_id) == << predicted_id >>

\* The weights of every step written to the first row.
StoreAttention_FirstRow(plot, t, weights) == [ plot EXCEPT ![1] = weights ]

\* attention_plot[t] = attention_weights.numpy(), t counted from 0
StoreAttention(plot, t, weights) == [ plot EXCEPT ![t + 1] = weights ]

\* One call evaluate(sentence), with the tokenizers of the loaded corpus.
EvalInit ==
  /\ AttIdle
  /\ DecIdle
  /\ PrepIdle
  /\ DataIdle
  /\ StepIdle
  /\ LoopIdle
  /\ corpus = LoadedCorpus
  /\ params = 0
  /\ ev_pc = "call"
  /\ ev_sentence \in EvalSentences
  /\ EvalLocalsInit

\* attention_plot = zeros; sentence = preprocess_sentence(sentence); inputs =
\* the ids of its pieces, padded or cut to max_length_inp; result = ''.
\* inp_lang.word_index[i] raises KeyError for a piece it does not hold.
EV_Prepare ==
  /\ ev_pc = "call"
  /\ LET pre    == preprocess_sentence(ev_sentence)
         pieces == SplitOn(pre, " ")
     IN  /\ ev_sentence' = pre
         /\ attention_plot' =
              [ r \in 1..max_length_targ |-> Zeros(max_length_inp) ]
         /\ IF \A k \in DOMAIN pieces : HasWord(inp_lang, pieces[k])
            THEN /\ ev_inputs' =
                      pad_sequences(
                        << [ k \in DOMAIN pieces |->
                               word_index(inp_lang, pieces[k]) ] >>,
                        Some(max_length_inp))
                 /\ ev_pc' = "prepared"
            ELSE /\ ev_inputs' = ev_inputs
                 /\ ev_pc' = "KeyError"
  /\ UNCHANGED << ev_result, ev_enc_out, ev_dec_hidden, ev_dec_input, ev_t,
                  ev_enc_calls, ev_dec_calls, modelVars, prepVars, dataVars,
                  stepVars, loopVars,
                  attVars, decVars >>

\* The encoder is called and its output dropped: enc_out keeps its old value.
EV_Encode_Dropped ==
  /\ ev_pc = "prepared"
  /\ \E output \in EncOutputs, state \in GRUStates :
       /\ ev_enc_calls' =
            Append(ev_enc_calls, [ x |-> ev_inputs, hidden |-> ZeroState,
                                   output |-> output, state |-> state ])
       /\ ev_dec_hidden' = state
  /\ ev_dec_input' = << word_index(targ_lang, StartTok) >>
  /\ ev_t' = 0
  /\ ev_pc' = "loop"
  /\ UNCHANGED << ev_sentence, ev_inputs, ev_result, attention_plot,
                  ev_enc_out, ev_dec_calls, modelVars, prepVars, dataVars,
                  stepVars, loopVars,
                  attVars, decVars >>

\* hidden = zeros; enc_out, enc_hidden = encoder(inputs, hidden);
\* dec_hidden = enc_hidden; dec_input = the '<start>' id.
EV_Encode ==
  /\ ev_pc = "prepared"
  /\ \E output \in EncOutputs, state \in GRUStates :
       /\ ev_enc_calls' =
            Append(ev_enc_calls, [ x |-> ev_inputs, hidden |-> ZeroState,
                                   output |-> output, state |-> state ])
       /\ ev_enc_out' = output
       /\ ev_dec_hidden' = state
  /\ ev_dec_input' = << word_index(targ_lang, StartTok) >>
  /\ ev_t' = 0
  /\ ev_pc' = "loop"
  /\ UNCHANGED << ev_sentence, ev_inputs, ev_result, attention_plot,
                  ev_dec_calls, modelVars, prepVars, dataVars, stepVars,
                  loopVars,
                  attVars, decVars >>

\* One pass of: for t in range(max_length_targ).  The decoder is called, its
\* attention weights stored, the word of its first id appended to result
\* (index_word raises KeyError for the id 0); at '<end>' evaluate returns,
\* otherwise the id becomes the next input.
EV_Step ==
  /\ ev_pc = "loop"
  /\ ev_t < max_length_targ
  /\ \E predicted_id \in EvalPredIds, state \in GRUStates,
        attention_weights \in AttentionRows :
       /\ ev_dec_calls' =
            Append(ev_dec_calls,
                   [ t |-> ev_t, x |-> ev_dec_input, hidden |-> ev_dec_hidden,
                     enc_out |-> ev_enc_out, predicted_id |-> predicted_id,
                     state |-> state, attention_weights |-> attention_weights ])
       /\ ev_dec_hidden' = state
       /\ attention_plot' = StoreAttention(attention_plot, ev_t, attention_weights)
       /\ IF predicted_id \notin DOMAIN targ_lang
          THEN /\ ev_pc' = "KeyError"
               /\ UNCHANGED << ev_result, ev_dec_input, ev_t >>
          ELSE /\ ev_result' =
                    ev_result \o index_word(targ_lang, predicted_id) \o << " " >>
               /\ IF PredictsEnd(predicted_id)
                  THEN /\ ev_pc' = "returned"
                       /\ UNCHANGED << ev_dec_input, ev_t >>
                  ELSE /\ ev_dec_input' = NextEvalInput(predicted_id)
                       /\ ev_t' = ev_t + 1
                       /\ ev_pc' = "loop"
  /\ UNCHANGED << ev_sentence, ev_inputs, ev_enc_out, ev_enc_calls, modelVars,
                  prepVars, dataVars, stepVars, loopVars,
                  attVars, decVars >>

\* The loop ran max_length_targ times without '<end>': the final return.
EV_Return ==
  /\ ev_pc = "loop"
  /\ ev_t >= max_length_targ
  /\ ev_pc' = "returned"
  /\ UNCHANGED << ev_sentence, ev_inputs, ev_result, attention_plot,
                  ev_enc_out, ev_dec_hidden, ev_dec_input, ev_t, ev_enc_calls,
                  ev_dec_calls, modelVars, prepVars, dataVars, stepVars,
                  loopVars,
                  attVars, decVars >>

EvalNext == EV_Prepare \/ EV_Encode \/ EV_Step \/ EV_Return

SpecEval == EvalInit /\ [][EvalNext]_vars

\* ------------------------------------------------- helpers of the properties

IsPrefix(p, s) == Len(p) <= Len(s) /\ SubSeq(s, 1, Len(p)) = p

IsSuffix(p, s) ==
  Len(p) <= Len(s) /\ SubSeq(s, Len(s) - Len(p) + 1, Len(s)) = p

\* The positions at which tok occurs in s.
Occurrences(tok, s) ==
  { i \in 1..(Len(s) - Len(tok) + 1) : SubSeq(s, i, i + Len(tok) - 1) = tok }

\* The part of a preprocessed sentence between '<start> ' and ' <end>'.
Middle(s) == SubSeq(s, Len(StartTok) + 2, Len(s) - Len(EndTok) - 1)

\* ------------------------------------------------------------------ C7

\* C7: for every input string, the string preprocess_sentence returns begins
\* with '<start> ' and ends with ' <end>', and each of the two tokens occurs
\* in it exactly once.
C7_StartEndTokens ==
  prep_pc = "done" =>
    /\ IsPrefix(StartTok \o << " " >>, prep_out)
    /\ IsSuffix(<< " " >> \o EndTok, prep_out)
    /\ Len(prep_out) >= Len(StartTok) + Len(EndTok) + 2
    /\ Cardinality(Occurrences(StartTok, prep_out)) = 1
    /\ Cardinality(Occurrences(EndTok, prep_out)) = 1

\* The input itself spells a token and has been preprocessed.
C7_Witness ==
  /\ prep_pc = "done"
  /\ Occurrences(EndTok, sentence) # {}
  /\ Occurrences(StartTok, sentence) # {}

\* ------------------------------------------------------------------ C8

Loaded == data_pc = "done" /\ ~dataset.raised

\* Row i of tensor is the ids of sentence i's tokens, none of them zero,
\* followed only by zeros, and every row is as long as the longest sentence
\* has tokens.
PaddedToLongest(tensor, tok, sents) ==
  LET count(i) == Len(text_to_word_sequence(sents[i]))
      longest  == MaxOf({ count(i) : i \in DOMAIN sents })
  IN  /\ DOMAIN tensor = DOMAIN sents
      /\ \A i \in DOMAIN sents :
           LET ws == text_to_word_sequence(sents[i])
           IN  /\ Len(tensor[i]) = longest
               /\ \A k \in 1..Len(ws) :
                    /\ tensor[i][k] # 0
                    /\ tensor[i][k] \in DOMAIN tok
                    /\ index_word(tok, tensor[i][k]) = ws[k]
               /\ \A k \in (Len(ws) + 1)..longest : tensor[i][k] = 0

\* C9: every row of the tensor tokenize returns has the same length, the
\* token count of the longest sentence passed in, and each row is that
\* sentence's token ids (all non-zero) followed only by zeros.
C9_PaddedRows ==
  Loaded =>
    /\ PaddedToLongest(dataset.input_tensor, dataset.inp_lang,
                       dataset.inp_sentences)
    /\ PaddedToLongest(dataset.target_tensor, dataset.targ_lang,
                       dataset.targ_sentences)

\* tokenize has padded a shorter sentence next to a longer one.
C9_Witness ==
  /\ Loaded
  /\ \E i, j \in DOMAIN dataset.target_tensor :
       LET r == dataset.target_tensor
       IN  /\ r[i][Len(r[i])] = 0
           /\ r[j][Len(r[j])] # 0
           /\ Len(r[i]) >= 4

\* ------------------------------------------------------------------ C10

\* The words a tensor row stands for: its non-zero ids, mapped back.
Decode(row, tok) ==
  LET ids == SelectSeq(row, LAMBDA x : x # 0)
  IN  [ k \in DOMAIN ids |-> index_word(tok, ids[k]) ]

\* Line i (fields: English, Spanish) sits in row i of both tensors, Spanish
\* as the input and English as the target.
RowIsLine(i) ==
  /\ i \in DOMAIN dataset.input_tensor
  /\ i \in DOMAIN dataset.target_tensor
  /\ Decode(dataset.input_tensor[i], dataset.inp_lang)
       = text_to_word_sequence(preprocess_sentence(file_lines[i][2]))
  /\ Decode(dataset.target_tensor[i], dataset.targ_lang)
       = text_to_word_sequence(preprocess_sentence(file_lines[i][1]))

\* The tokenizers are fitted on the Spanish and on the English field of the
\* given lines.
FittedOn(lines) ==
  /\ dataset.inp_lang
       = fit_on_texts([ i \in DOMAIN lines |-> preprocess_sentence(lines[i][2]) ])
  /\ dataset.targ_lang
       = fit_on_texts([ i \in DOMAIN lines |-> preprocess_sentence(lines[i][1]) ])

\* C10 as stated: every line 'ENGLISH<tab>SPANISH' of the data file has its
\* Spanish field in row i of input_tensor and its English field in row i of
\* target_tensor, and the tokenizers are fitted on the Spanish and English
\* sentences of the file.
C10_Original ==
  Loaded =>
    /\ \A i \in DOMAIN file_lines : Len(file_lines[i]) = 2 => RowIsLine(i)
    /\ FittedOn(file_lines)

\* C10, amended: every line 'ENGLISH<tab>SPANISH' among the first
\* num_examples lines of the data file (all of them when num_examples is
\* None) has its Spanish field in row i of input_tensor and its English field
\* in row i of target_tensor, and the tokenizers are fitted on the Spanish and
\* English sentences of those lines.
C10_SpanishToEnglish ==
  Loaded =>
    LET taken == SliceTo(file_lines, num_examples)
    IN  /\ DOMAIN dataset.input_tensor = DOMAIN taken
        /\ DOMAIN dataset.target_tensor = DOMAIN taken
        /\ \A i \in DOMAIN taken : Len(taken[i]) = 2 => RowIsLine(i)
        /\ FittedOn(taken)

\* Two lines whose English and Spanish differ have been loaded under a
\* limit.
C10_Witness ==
  /\ Loaded
  /\ num_examples # None
  /\ Len(dataset.input_tensor) >= 2
  /\ \A i \in 1..2 :
       /\ Len(file_lines[i]) = 2
       /\ file_lines[i][1] # file_lines[i][2]
       /\ RowIsLine(i)
  /\ dataset.inp_lang # dataset.targ_lang


\* ------------------------------------------------------------------ C1

StartIds == [ i \in 1..BATCH_SIZE |-> word_index(targ_lang, StartTok) ]

\* C1: in train_step the decoder call of step t, for every t in
\* 1..targ.shape[1]-1, receives the ground-truth target token of position
\* t-1 (the '<start>' id at t = 1, targ[:, t-1] afterwards), whatever the
\* decoder predicted; when train_step is done there has been one call per t.
C1_TeacherForcing ==
  /\ \A k \in DOMAIN ts_dec_calls :
       /\ ts_dec_calls[k].t = k
       /\ k \in 1..(Len(ts_targ[1]) - 1)
       /\ ts_dec_calls[k].x = IF k = 1 THEN StartIds ELSE Col(ts_targ, k - 1)
  /\ ts_pc = "done" => Len(ts_dec_calls) = Len(ts_targ[1]) - 1

\* train_step is done, its later decoder calls got inputs other than the
\* start token, and the last input chosen differs from what the decoder had
\* just predicted.
C1_Witness ==
  /\ ts_pc = "done"
  /\ Len(ts_dec_calls) >= 3
  /\ ts_dec_calls[2].x # ts_dec_calls[3].x
  /\ ts_dec_calls[3].x # StartIds
  /\ ts_predictions # ts_dec_input

\* ------------------------------------------------------------------ C6

\* C6: checkpoint.save is called exactly once after each epoch whose 1-based
\* number is even, after all train steps of that epoch, and never after an
\* odd-numbered epoch; a run of EPOCHS epochs makes floor(EPOCHS/2) saves.
C6_SaveEverySecondEpoch ==
  /\ loop_pc # "idle" => Len(checkpoints) = epoch \div 2
  /\ \A k \in DOMAIN checkpoints :
       /\ checkpoints[k].epoch = 2 * k
       /\ checkpoints[k].batches = steps_per_epoch
       /\ checkpoints[k].params = 2 * k * steps_per_epoch
  /\ loop_pc \in { "finished", "restored" } =>
       /\ epoch = EPOCHS
       /\ Len(checkpoints) = EPOCHS \div 2

\* The loop has run all its epochs, with train steps in each, and has saved.
C6_Witness ==
  /\ loop_pc = "finished"
  /\ steps_per_epoch >= 1
  /\ params = EPOCHS * steps_per_epoch
  /\ Len(checkpoints) >= 2


\* ------------------------------------------------------------------ C2

EndId == word_index(targ_lang, EndTok)

\* The words of the result evaluate builds, one per decoder call.
ResultWords == text_to_word_sequence(ev_result)

\* C2: at the first decode step whose argmax word is '<end>', evaluate
\* returns at once: that decoder call is the last one, '<end>' is the last
\* word of the returned result, and no word follows an '<end>' in a returned
\* result.
C2_StopsAtEnd ==
  /\ \A k \in DOMAIN ev_dec_calls :
       ev_dec_calls[k].predicted_id = EndId =>
         /\ k = Len(ev_dec_calls)
         /\ ev_pc = "returned"
  /\ ev_pc = "returned" =>
       LET words == ResultWords
           n     == Len(ev_dec_calls)
       IN  /\ Len(words) = n
           /\ \A k \in DOMAIN words :
                /\ words[k] = index_word(targ_lang, ev_dec_calls[k].predicted_id)
                /\ words[k] = EndTok => k = n
           /\ ev_dec_calls[n].predicted_id = EndId => words[n] = EndTok

\* evaluate has returned at an '<end>' predicted after other words and before
\* the loop ran out.
C2_Witness ==
  /\ ev_pc = "returned"
  /\ Len(ev_dec_calls) \in 2..(max_length_targ - 1)
  /\ ev_dec_calls[Len(ev_dec_calls)].predicted_id = EndId

\* ------------------------------------------------------------------ C3

\* C3: the decoder input of evaluate at step 0 is the '<start>' id, and at
\* every step t >= 1 it is the id the decoder predicted at step t-1, together
\* with the hidden state returned at step t-1 and the same encoder output.
C3_FeedsBackPrediction ==
  \A k \in DOMAIN ev_dec_calls :
    /\ ev_dec_calls[k].t = k - 1
    /\ ev_enc_calls # << >>
    /\ ev_dec_calls[k].enc_out = ev_enc_calls[1].output
    /\ IF k = 1
       THEN /\ ev_dec_calls[k].x = << word_index(targ_lang, StartTok) >>
            /\ ev_dec_calls[k].hidden = ev_enc_calls[1].state
       ELSE /\ ev_dec_calls[k].x = << ev_dec_calls[k - 1].predicted_id >>
            /\ ev_dec_calls[k].hidden = ev_dec_calls[k - 1].state

\* Three decoder calls were made, after two different predictions and two
\* different returned states.
C3_Witness ==
  /\ Len(ev_dec_calls) >= 3
  /\ ev_dec_calls[1].predicted_id # ev_dec_calls[2].predicted_id
  /\ ev_dec_calls[1].state # ev_dec_calls[2].state
  /\ ev_dec_calls[2].x # << word_index(targ_lang, StartTok) >>

\* ------------------------------------------------------------------ C4

\* C4: a call of evaluate invokes the encoder exactly once (never twice, and
\* once as soon as its input ids are found), before the first decoder step,
\* and every decoder step of the call receives that encoder output.
C4_EncoderOnce ==
  /\ Len(ev_enc_calls) <= 1
  /\ (ev_pc \in { "loop", "returned" } \/ ev_dec_calls # << >>) =>
       /\ Len(ev_enc_calls) = 1
       /\ ev_enc_calls[1].x = ev_inputs
       /\ \A k \in DOMAIN ev_dec_calls :
            ev_dec_calls[k].enc_out = ev_enc_calls[1].output

\* evaluate has returned after several decoder steps.
C4_Witness ==
  /\ ev_pc = "returned"
  /\ Len(ev_enc_calls) = 1
  /\ Len(ev_dec_calls) >= 3

\* ------------------------------------------------------------------ C5

\* C5: when evaluate returns after k decoder steps, row t of attention_plot
\* is the attention weights of decoder step t for every t < k, and every row
\* t >= k is still all zeros.
C5_AttentionRows ==
  ev_pc = "returned" =>
    /\ Len(attention_plot) = max_length_targ
    /\ \A r \in DOMAIN attention_plot :
         attention_plot[r] =
           IF r <= Len(ev_dec_calls)
           THEN ev_dec_calls[r].attention_weights
           ELSE Zeros(max_length_inp)

\* evaluate has returned after two steps with different weights, leaving
\* rows untouched.
C5_Witness ==
  /\ ev_pc = "returned"
  /\ Len(ev_dec_calls) = 2
  /\ ev_dec_calls[1].attention_weights # ev_dec_calls[2].attention_weights
  /\ attention_plot[3] = Zeros(max_length_inp)

\* ------------------------------------------------------------------ C12

\* The positions of the punctuation characters ? . ! , and the inverted
\* question mark in s.
PunctPositions(s) == { i \in DOMAIN s : s[i] \in Punct }

\* C12: for every input string, every occurrence of ? . ! , or the inverted
\* question mark in the string preprocess_sentence returns is a token of its
\* own: exactly one space right before it and exactly one right after it.
C12_PunctuationIsAToken ==
  prep_pc = "done" =>
    \A i \in PunctPositions(prep_out) :
      /\ 2 < i
      /\ i + 1 < Len(prep_out)
      /\ prep_out[i - 1] = " "
      /\ prep_out[i + 1] = " "
      /\ prep_out[i - 2] # " "
      /\ prep_out[i + 2] # " "

\* A punctuation character written right after a word, and another right
\* after a punctuation character, have been preprocessed.
C12_Witness ==
  /\ prep_pc = "done"
  /\ \E i \in DOMAIN sentence :
       /\ i > 1
       /\ sentence[i] \in Punct
       /\ sentence[i - 1] \in AsciiLetters
  /\ \E i \in DOMAIN sentence :
       /\ i > 1
       /\ sentence[i] \in Punct
       /\ sentence[i - 1] \in Punct
  /\ Cardinality(PunctPositions(prep_out)) >= 2

\* ------------------------------------------------------------------ C13

\* C13: in train_step the encoder is run once, on the input batch; the first
\* decoder call receives the encoder's output and the encoder's final hidden
\* state; every later decoder call receives the hidden state the decoder
\* call right before it returned, with the same encoder output.
C13_HiddenPassedBack ==
  /\ ts_pc = "call" => ts_enc_calls = << >> /\ ts_dec_calls = << >>
  /\ ts_pc \in { "loop", "done" } =>
       /\ Len(ts_enc_calls) = 1
       /\ ts_enc_calls[1].x = ts_inp
       /\ \A k \in DOMAIN ts_dec_calls :
            /\ ts_dec_calls[k].enc_output = ts_enc_calls[1].output
            /\ ts_dec_calls[k].hidden =
                 IF k = 1 THEN ts_enc_calls[1].state
                 ELSE ts_dec_calls[k - 1].state

\* A finished train_step whose decoder calls returned states that differ
\* from each other and from the encoder's final state.
C13_Witness ==
  /\ ts_pc = "done"
  /\ Len(ts_dec_calls) >= 3
  /\ ts_dec_calls[1].state # ts_enc_calls[1].state
  /\ ts_dec_calls[2].state # ts_dec_calls[1].state
  /\ ts_dec_calls[3].hidden = ts_dec_calls[2].state

\* ------------------------------------------------------------------ C14

\* C14: evaluate always terminates.  Once the words of the sentence have all
\* been found in the input vocabulary and the encoder has run, whatever the
\* decoder predicts, evaluate makes at most max_length_targ decoder calls,
\* its result holds at most max_length_targ words, and evaluate either has
\* returned or has a further step to take: it never ends without returning.
C14_Original ==
  ev_enc_calls # << >> =>
    /\ Len(ev_dec_calls) <= max_length_targ
    /\ Len(ResultWords) <= max_length_targ
    /\ ev_pc = "returned" \/ ENABLED EvalNext

\* ------------------------------------------------------------------ C15

\* The checkpoint tf.train.latest_checkpoint names: the last one saved.
LatestCheckpoint == checkpoints[Len(checkpoints)]

\* C15: in the run order of the notebook (the training loop with EPOCHS = 10,
\* then the restore of the latest checkpoint) the restored state of encoder,
\* decoder and optimizer equals the state after the last train step of the
\* last epoch: the latest checkpoint was saved after the last update, so the
\* restore discards no training.
C15_RestoreKeepsTraining ==
  /\ loop_pc = "finished" =>
       /\ checkpoints # << >>
       /\ LatestCheckpoint.epoch = EPOCHS
       /\ LatestCheckpoint.params = params
  /\ loop_pc \in { "finished", "restored" } =>
       params = EPOCHS * steps_per_epoch

\* The latest checkpoint has been restored after a run that trained in every
\* epoch and had saved earlier checkpoints with fewer updates.
C15_Witness ==
  /\ loop_pc = "restored"
  /\ steps_per_epoch >= 1
  /\ Len(checkpoints) >= 2
  /\ checkpoints[1].params < params
  /\ LatestCheckpoint.params = params

\* ------------------------------------------------------------------ C16

\* C16: the encoder hidden state is not carried across batches.  The loop's
\* enc_hidden is the all-zero state from the start of each epoch on, no
\* train_step call changes it, and the encoder call of every train_step of
\* every epoch receives the all-zero hidden state.
C16_HiddenNotCarried ==
  /\ loop_pc = "batches" => enc_hidden = ZeroState
  /\ loop_pc \in { "epoch_start", "finished", "restored" } /\ epoch > 0 =>
       enc_hidden = ZeroState
  /\ \A k \in DOMAIN ts_enc_calls : ts_enc_calls[k].hidden = ZeroState

\* The second train_step of a later epoch has run: inside the call the
\* parameter was rebound to the encoder's final state, which is not the
\* all-zero state the loop still holds.
C16_Witness ==
  /\ loop_pc = "batches"
  /\ epoch >= 1
  /\ batch >= 2
  /\ ts_enc_calls # << >>
  /\ ts_enc_hidden = ts_enc_calls[1].state
  /\ ts_enc_hidden # enc_hidden

\* ------------------------------------------------------------------ C18

\* The positions of a batch column whose real target id is not the padding.
Unmasked(real) == { i \in DOMAIN real : real[i] # 0 }

\* The sum of the entries of q at the positions in S.
SumAt(q, S) == Sum([ i \in DOMAIN q |-> IF i \in S THEN q[i] ELSE 0 ])

\* C18: loss_function masks padding.  A position whose real target id is 0
\* contributes 0 to the returned loss whatever is predicted there; the
\* returned value is the sum of the per-position losses of the other
\* positions divided by the full batch size; and it is 0 when every target
\* id of the batch is 0.
C18_LossMasksPadding ==
  ts_pc = "done" =>
    LET real == Col(ts_targ, ts_t)
        per  == loss_object(real, ts_predictions)
    IN  /\ ts_loss = SumAt(per, Unmasked(real)) \div BATCH_SIZE
        /\ ts_loss * BATCH_SIZE = SumAt(per, Unmasked(real))
        /\ Len(real) = BATCH_SIZE
        /\ \A other \in [ 1..BATCH_SIZE -> PredIds ] :
             (\A i \in Unmasked(real) : other[i] = ts_predictions[i]) =>
               loss_function(real, other) = ts_loss
        /\ Unmasked(real) = {} => ts_loss = 0

\* The loss of a batch column with a padding position where the prediction
\* is not the padding id, and another position that is predicted wrongly.
C18_Witness ==
  /\ ts_pc = "done"
  /\ ts_dec_calls = << >>
  /\ LET real == Col(ts_targ, ts_t)
     IN  /\ \E i \in DOMAIN real : real[i] = 0 /\ ts_predictions[i] # 0
         /\ \E j \in DOMAIN real : real[j] # 0 /\ ts_predictions[j] # real[j]
  /\ ts_loss > 0

\* ------------------------------------------------------------------ C11

\* The number 1 as a fraction.
One == Rat(1, 1)

\* C11: BahdanauAttention.call applies softmax over the time axis.  For
\* every batch element the returned attention weights are non-negative and
\* sum to 1 over the max_length encoder positions, and the context vector is
\* the sum over those positions of weight times encoder output.
C11_SoftmaxOverTime ==
  att_pc = "done" =>
    /\ DOMAIN att_weights = 1..BATCH_SIZE
    /\ DOMAIN att_context = 1..BATCH_SIZE
    /\ \A b \in 1..BATCH_SIZE :
         /\ DOMAIN att_weights[b] = 1..MaxLength
         /\ \A t \in 1..MaxLength :
              /\ att_weights[b][t][1].num >= 0
              /\ att_weights[b][t][1].den > 0
         /\ RatSum([ t \in 1..MaxLength |-> att_weights[b][t][1] ]) = One
         /\ DOMAIN att_context[b] = DOMAIN att_values[b][1]
         /\ \A h \in DOMAIN att_context[b] :
              att_context[b][h] =
                RatSum([ t \in 1..MaxLength |->
                           RatScale(att_weights[b][t][1], att_values[b][t][h]) ])

\* The layer has run on a batch whose first element has scores that differ
\* along the time axis, hence unequal weights, and encoder outputs that
\* differ along it too.
C11_Witness ==
  /\ att_pc = "done"
  /\ att_score[1][1] # att_score[1][2]
  /\ att_weights[1][1] # att_weights[1][2]
  /\ att_values[1][1] # att_values[1][2]
  /\ att_values[1] # att_values[2]

\* ------------------------------------------------------------------ C17

\* C17: Decoder.call uses its hidden argument only to compute attention.
\* The GRU is started without an initial state, so any two calls with the
\* same token input x and the same context vector return the same logits
\* and the same new state, whatever their hidden arguments are.
C17_HiddenOnlyForAttention ==
  /\ \A i \in DOMAIN dec_calls :
       dec_calls[i].state.initial_state = ZeroState
  /\ \A i, j \in DOMAIN dec_calls :
       /\ dec_calls[i].x = dec_calls[j].x
       /\ dec_calls[i].context_vector = dec_calls[j].context_vector
       => /\ dec_calls[i].logits = dec_calls[j].logits
          /\ dec_calls[i].state = dec_calls[j].state

\* Two calls were made with the same x and different hidden arguments, got
\* different attention weights and still the same context vector.
C17_Witness ==
  /\ dec_pc = "done"
  /\ dec_calls[1].x = dec_calls[2].x
  /\ dec_calls[1].hidden # dec_calls[2].hidden
  /\ dec_calls[1].attention_weights # dec_calls[2].attention_weights
  /\ dec_calls[1].context_vector = dec_calls[2].context_vector

====
